---- MODULE Spec2Model ----
(***************************************************************************)
(* Model of jenkins-builder (src/jenkins-builder.c): one run of main().     *)
(* The program is sequential; every function of the source is an operator  *)
(* computed the way the code computes it, and every step of main() is an   *)
(* action.  What the environment decides (argv, the value of PROJECTS, the *)
(* outcome of stat/fopen/malloc/fread, the contents of the credentials     *)
(* file, the outcome of each curl_easy_perform) is drawn from small sets.  *)
(*                                                                         *)
(* C strings are sequences of fragments; a char* is a record               *)
(* [null, s], NULL being the record with null = TRUE.                       *)
(***************************************************************************)
EXTENDS Integers, Sequences, FiniteSets, TLC

\* ---------------------------------------------------------------- bounds
\* Longest value of the PROJECTS environment variable, in characters.
MaxLen == 5
\* Longest command line, in arguments after argv[0].
MaxArgs == 2

\* ------------------------------------------------------------- constants
\* <errno.h> values returned by main.
EINVAL == 22
ENOMEM == 12
\* argp_usage() ends the process with argp_err_exit_status (EX_USAGE).
EX_USAGE == 64

NULL == [null |-> TRUE, s |-> <<>>]
Str(s) == [null |-> FALSE, s |-> s]

\* Characters a PROJECTS value is made of; NUL is the C string terminator.
NUL == "NUL"
Delim == ":"
Alphabet == {"a", "b", Delim}

RECURSIVE StringsUpTo(_)
StringsUpTo(n) ==
    IF n = 0 THEN {<<>>}
    ELSE LET shorter == StringsUpTo(n - 1)
         IN  shorter \cup {Append(s, c) : s \in {t \in shorter : Len(t) = n - 1},
                                          c \in Alphabet}

\* The values the environment may give PROJECTS (NULL: unset).
EnvValues == {NULL} \cup {Str(s) : s \in StringsUpTo(MaxLen)}

\* The command line: options -c FILE, -h HOST, and positional arguments.
CredPath == <<"creds.json">>
Host == <<"http://ci">>
ArgItems == {[key |-> "c", arg |-> CredPath],
             [key |-> "h", arg |-> Host],
             [key |-> "ARGP_KEY_ARG", arg |-> <<"extra">>]}

RECURSIVE ArgvUpTo(_)
ArgvUpTo(n) ==
    IF n = 0 THEN {<<>>}
    ELSE LET shorter == ArgvUpTo(n - 1)
         IN  shorter \cup {Append(s, c) : s \in {t \in shorter : Len(t) = n - 1},
                                          c \in ArgItems}

Argvs == ArgvUpTo(MaxArgs)

\* JSON values and documents, as json-c sees the credentials file.
JsonAbsent == [type |-> "absent", val |-> ""]
UserValues == {JsonAbsent,
               [type |-> "string", val |-> "alice"],
               [type |-> "int", val |-> "7"]}
TokenValues == {JsonAbsent,
                [type |-> "string", val |-> "t0k3n"],
                [type |-> "int", val |-> "7"]}
JsonDocs == {[valid |-> v, user |-> u, token |-> t] :
                v \in BOOLEAN, u \in UserValues, t \in TokenValues}
FileContents == {d \in JsonDocs : d.valid \/ (d.user = JsonAbsent /\ d.token = JsonAbsent)}

\* Outcomes of the system calls get_file_contents makes.
FileOutcomes == [stat : BOOLEAN, fopen : BOOLEAN, malloc : BOOLEAN,
                 fread : BOOLEAN, content : FileContents]

\* Outcomes of curl_easy_perform and of the response code read after it.
\* A transfer that completed carries an HTTP status; a failed one carries
\* the status if a response was received and 0 otherwise.
CurlOutcomes == {[code |-> "CURLE_OK", response |-> 201],
                 [code |-> "CURLE_OK", response |-> 401],
                 [code |-> "CURLE_COULDNT_CONNECT", response |-> 0],
                 [code |-> "CURLE_PARTIAL_FILE", response |-> 404]}
NoUrlOutcome == [code |-> "CURLE_URL_MALFORMAT", response |-> 0]

VARIABLES
    pc,               \* position in main()
    argv,             \* the command line given to main
    arguments,        \* Arguments arguments
    PROJECTS,         \* the value of PROJECTS in the environment at start
    env_projects,     \* char* env_projects, the buffer strtok_r cuts
    saveptr,          \* char* saveptr, a position in env_projects
    project,          \* char* project, a position in env_projects (0: NULL)
    credentials_file, \* char* credentials_file, null or the parsed-to-be text
    credentials,      \* Credentials credentials
    result,           \* int result
    fileio,           \* calls of stat and fopen made so far
    input_file,       \* FILE* input_file: "unopened", "open" or "closed"
    json,             \* the json_object tree: "none", "live" or "released"
    curl,             \* CURL* curl: "none", "NULL", "live" or "cleaned"
    requests,         \* the curl_easy_perform calls made so far, in order
    stderr,           \* diagnostics written so far
    status            \* the exit status, once pc is "exited" or "returned"

vars == <<pc, argv, arguments, PROJECTS, env_projects, saveptr, project,
          credentials_file, credentials, result, fileio, input_file, json,
          curl, requests, stderr, status>>

\* ------------------------------------------------------ parse_opt, argp
\* Variant: ARGP_KEY_END does not test jenkins_host.
parse_opt_no_host_check(key, arg, args) ==
    CASE key = "ARGP_KEY_ARG" ->
            [args |-> args, usage |-> TRUE, err |-> <<>>]
      [] key = "ARGP_KEY_END" ->
            IF args.credentials.null
            THEN [args |-> args, usage |-> TRUE,
                  err |-> <<"A credentials file is required">>]
            ELSE [args |-> args, usage |-> FALSE, err |-> <<>>]
      [] key = "h" ->
            [args |-> [args EXCEPT !.jenkins_host = Str(arg)],
             usage |-> FALSE, err |-> <<>>]
      [] key = "c" ->
            [args |-> [args EXCEPT !.credentials = Str(arg)],
             usage |-> FALSE, err |-> <<>>]
      [] OTHER -> [args |-> args, usage |-> FALSE, err |-> <<>>]

\* parse_opt: what one call does to *state->input, and whether it calls
\* argp_usage (which does not return: it ends the process).
parse_opt(key, arg, args) ==
    CASE key = "ARGP_KEY_ARG" ->
            [args |-> args, usage |-> TRUE, err |-> <<>>]
      [] key = "ARGP_KEY_END" ->
            IF args.credentials.null
            THEN [args |-> args, usage |-> TRUE,
                  err |-> <<"A credentials file is required">>]
            ELSE IF args.jenkins_host.null
            THEN [args |-> args, usage |-> TRUE,
                  err |-> <<"A Jenkins host URL is required">>]
            ELSE [args |-> args, usage |-> FALSE, err |-> <<>>]
      [] key = "h" ->
            [args |-> [args EXCEPT !.jenkins_host = Str(arg)],
             usage |-> FALSE, err |-> <<>>]
      [] key = "c" ->
            [args |-> [args EXCEPT !.credentials = Str(arg)],
             usage |-> FALSE, err |-> <<>>]
      [] OTHER -> [args |-> args, usage |-> FALSE, err |-> <<>>]

\* argp_parse: parse_opt on every element of the command line in turn, then
\* on ARGP_KEY_END; the first argp_usage ends the run.
RECURSIVE argp_parse(_, _, _)
argp_parse(av, i, args) ==
    LET r == IF i > Len(av) THEN parse_opt("ARGP_KEY_END", <<>>, args)
             ELSE parse_opt(av[i].key, av[i].arg, args)
    IN  IF r.usage \/ i > Len(av) THEN r ELSE argp_parse(av, i + 1, r.args)

\* ---------------------------------------------------- get_file_contents
\* Variant: the malloc failure path returns without fclose.
get_file_contents_leak(path, o) ==
    IF path.null \/ ~o.stat
    THEN [ret |-> NULL, calls |-> <<"stat">>,
          input_file |-> "unopened",
          err |-> <<"Couldn't open credentials file">>]
    ELSE IF ~o.fopen
    THEN [ret |-> NULL, calls |-> <<"stat", "fopen">>,
          input_file |-> "unopened",
          err |-> <<"Couldn't open credentials file">>]
    ELSE IF ~o.malloc
    THEN [ret |-> NULL, calls |-> <<"stat", "fopen">>,
          input_file |-> "open",
          err |-> <<"Couldn't open credentials file">>]
    ELSE IF ~o.fread
    THEN [ret |-> NULL, calls |-> <<"stat", "fopen">>,
          input_file |-> "closed",
          err |-> <<"Read size was not expected size">>]
    ELSE [ret |-> Str(<<o.content>>),
          calls |-> <<"stat", "fopen">>,
          input_file |-> "closed", err |-> <<>>]

\* get_file_contents: the buffer returned (NULL on failure), the file system
\* calls made, and the state of input_file when the function returns.
\* stat fails on a NULL path.  The buffer's last byte is never written
\* (line 75 allocates st_size + 1, line 83 reads st_size), so o.content is
\* what json_tokener_parse makes of the file's bytes and whatever follows.
get_file_contents(path, o) ==
    IF path.null \/ ~o.stat
    THEN [ret |-> NULL, calls |-> <<"stat">>,
          input_file |-> "unopened",
          err |-> <<"Couldn't open credentials file">>]
    ELSE IF ~o.fopen
    THEN [ret |-> NULL, calls |-> <<"stat", "fopen">>,
          input_file |-> "unopened",
          err |-> <<"Couldn't open credentials file">>]
    ELSE IF ~o.malloc
    THEN [ret |-> NULL, calls |-> <<"stat", "fopen">>,
          input_file |-> "closed",
          err |-> <<"Couldn't open credentials file">>]
    ELSE IF ~o.fread
    THEN [ret |-> NULL, calls |-> <<"stat", "fopen">>,
          input_file |-> "closed",
          err |-> <<"Read size was not expected size">>]
    ELSE [ret |-> Str(<<o.content>>),
          calls |-> <<"stat", "fopen">>,
          input_file |-> "closed", err |-> <<>>]

\* ------------------------------------------------- get_user_credentials
NoCredentials == [user |-> NULL, token |-> NULL]

\* json_object_object_get followed by the type test of lines 103 and 110.
IsJsonString(v) == v.type = "string"

\* Variant: the 'token' failure returns the code of the 'user' failure.
get_user_credentials_same_code(creds, doc) ==
    IF ~doc.valid
    THEN [ret |-> 1, credentials |-> creds, json |-> "none",
          err |-> <<"Credentials file doesn't contain valid JSON">>]
    ELSE IF ~IsJsonString(doc.user)
    THEN [ret |-> 2, credentials |-> creds, json |-> "released",
          err |-> <<"Credentials file is missing valid 'user' key">>]
    ELSE IF ~IsJsonString(doc.token)
    THEN [ret |-> 2, credentials |-> creds, json |-> "released",
          err |-> <<"Credentials file is missing valid 'token' key">>]
    ELSE [ret |-> 0,
          credentials |-> [user |-> Str(<<doc.user.val>>),
                           token |-> Str(<<doc.token.val>>)],
          json |-> "released", err |-> <<>>]

\* get_user_credentials: the return code, *credentials, and the state of the
\* parsed tree when the function returns (json_tokener_parse returns NULL,
\* and makes no tree, on text that is not JSON).
get_user_credentials(creds, doc) ==
    IF ~doc.valid
    THEN [ret |-> 1, credentials |-> creds, json |-> "none",
          err |-> <<"Credentials file doesn't contain valid JSON">>]
    ELSE IF ~IsJsonString(doc.user)
    THEN [ret |-> 2, credentials |-> creds, json |-> "released",
          err |-> <<"Credentials file is missing valid 'user' key">>]
    ELSE IF ~IsJsonString(doc.token)
    THEN [ret |-> 3, credentials |-> creds, json |-> "released",
          err |-> <<"Credentials file is missing valid 'token' key">>]
    ELSE [ret |-> 0,
          credentials |-> [user |-> Str(<<doc.user.val>>),
                           token |-> Str(<<doc.token.val>>)],
          json |-> "released", err |-> <<>>]

\* ------------------------------------------------ get_project_url_owned
\* The URL is the plain concatenation; NULL when malloc fails.
get_project_url_owned(jenkins_url, proj, mallocOk) ==
    IF ~mallocOk THEN NULL
    ELSE Str(jenkins_url.s \o <<"/job/">> \o proj \o <<"/build">>)

\* -------------------------------------------------------- build_project
\* Variant: a completed transfer with an HTTP status >= 400 is a failure.
build_project_checks_status(project_url, proj, o) ==
    IF o.code # "CURLE_OK"
    THEN [ret |-> o.response,
          err |-> <<"Couldn't build project">>]
    ELSE [ret |-> IF o.response >= 400 THEN o.response ELSE 0, err |-> <<>>]

\* build_project: one curl_easy_perform; on a transport failure the value of
\* CURLINFO_RESPONSE_CODE is returned, otherwise 0.
build_project(project_url, proj, o) ==
    IF o.code # "CURLE_OK"
    THEN [ret |-> o.response,
          err |-> <<"Couldn't build project">>]
    ELSE [ret |-> 0, err |-> <<>>]

\* ------------------------------------------------------------- strtok_r
CharAt(buf, p) == IF p > Len(buf) THEN NUL ELSE buf[p]

RECURSIVE strspn(_, _)
strspn(buf, p) == IF CharAt(buf, p) = Delim THEN 1 + strspn(buf, p + 1) ELSE 0

RECURSIVE strcspn(_, _)
strcspn(buf, p) ==
    IF CharAt(buf, p) \in {NUL, Delim} THEN 0 ELSE 1 + strcspn(buf, p + 1)

\* The C string that starts at position p of buf.
CString(buf, p) == SubSeq(buf, p, p + strcspn(buf, p) - 1)

\* Variant: leading and doubled delimiters are not skipped (as strsep).
strtok_r_keeps_empty(buf, start) ==
    IF start > Len(buf)
    THEN [tok |-> 0, buf |-> buf, saveptr |-> start]
    ELSE LET end == start + strcspn(buf, start)
         IN  IF CharAt(buf, end) = NUL
             THEN [tok |-> start, buf |-> buf, saveptr |-> end]
             ELSE [tok |-> start, buf |-> [buf EXCEPT ![end] = NUL],
                   saveptr |-> end + 1]

\* Variant: a split that yields every segment, one empty segment for the
\* empty string included.
strtok_r_split(buf, start) ==
    IF start > Len(buf) + 1
    THEN [tok |-> 0, buf |-> buf, saveptr |-> start]
    ELSE LET end == start + strcspn(buf, start)
         IN  IF end > Len(buf)
             THEN [tok |-> start, buf |-> buf, saveptr |-> Len(buf) + 2]
             ELSE [tok |-> start, buf |-> [buf EXCEPT ![end] = NUL],
                   saveptr |-> end + 1]

\* strtok_r(str, ":", &saveptr), scanning from position start (str on the
\* first call, saveptr afterwards): the token's position (0: NULL), the
\* buffer with the delimiter that ends the token overwritten, and saveptr.
strtok_r(buf, start) ==
    IF CharAt(buf, start) = NUL
    THEN [tok |-> 0, buf |-> buf, saveptr |-> start]
    ELSE LET s == start + strspn(buf, start)
         IN  IF CharAt(buf, s) = NUL
             THEN [tok |-> 0, buf |-> buf, saveptr |-> s]
             ELSE LET end == s + strcspn(buf, s)
                  IN  IF CharAt(buf, end) = NUL
                      THEN [tok |-> s, buf |-> buf, saveptr |-> end]
                      ELSE [tok |-> s, buf |-> [buf EXCEPT ![end] = NUL],
                            saveptr |-> end + 1]

\* ----------------------------------------------------------------- main
\* Variant: the loop never breaks.
Break_never(res) == FALSE

\* Lines 229-231: the loop is left when the dispatch result is not 0.
Break(res) == 0 # res

\* Variant: main returns 0 whatever the loop's result.
main_return_zero(res) == 0

\* Line 236: main returns result.
main_return(res) == res

Init ==
    /\ pc = "argp_parse"
    /\ argv \in Argvs
    /\ PROJECTS \in EnvValues
    /\ arguments = [credentials |-> NULL, jenkins_host |-> NULL]
    /\ env_projects = NULL
    /\ saveptr = 0
    /\ project = 0
    /\ credentials_file = NULL
    /\ credentials = NoCredentials
    /\ result = 0
    /\ fileio = <<>>
    /\ input_file = "unopened"
    /\ json = "none"
    /\ curl = "none"
    /\ requests = <<>>
    /\ stderr = <<>>
    /\ status = 0

\* Line 192: argp_parse; argp_usage ends the process.
ArgpParse ==
    /\ pc = "argp_parse"
    /\ LET r == argp_parse(argv, 1, arguments)
       IN  /\ arguments' = r.args
           /\ stderr' = stderr \o r.err
           /\ pc' = IF r.usage THEN "exited" ELSE "getenv"
           /\ status' = IF r.usage THEN EX_USAGE ELSE status
    /\ UNCHANGED <<argv, PROJECTS, env_projects, saveptr, project,
                   credentials_file, credentials, result, fileio, input_file,
                   json, curl, requests>>

\* Lines 193-197: getenv("PROJECTS").
GetEnv ==
    /\ pc = "getenv"
    /\ env_projects' = PROJECTS
    /\ IF PROJECTS.null
       THEN /\ stderr' = Append(stderr, "PROJECTS is not set in the environment!")
            /\ status' = EINVAL
            /\ pc' = "returned"
       ELSE /\ pc' = "get_file_contents"
            /\ UNCHANGED <<stderr, status>>
    /\ UNCHANGED <<argv, arguments, PROJECTS, saveptr, project,
                   credentials_file, credentials, result, fileio, input_file,
                   json, curl, requests>>

\* Lines 199-202: read the credentials file.
GetFileContents ==
    /\ pc = "get_file_contents"
    /\ \E o \in FileOutcomes :
         LET r == get_file_contents(arguments.credentials, o)
         IN  /\ credentials_file' = r.ret
             /\ fileio' = fileio \o r.calls
             /\ input_file' = r.input_file
             /\ stderr' = stderr \o r.err
             /\ pc' = IF r.ret.null THEN "returned" ELSE "get_user_credentials"
             /\ status' = IF r.ret.null THEN EINVAL ELSE status
    /\ UNCHANGED <<argv, arguments, PROJECTS, env_projects, saveptr, project,
                   credentials, result, json, curl, requests>>

\* Lines 204-209: parse the credentials, free the file's text.
GetUserCredentials ==
    /\ pc = "get_user_credentials"
    /\ LET r == get_user_credentials(credentials, credentials_file.s[1])
       IN  /\ result' = r.ret
           /\ credentials' = r.credentials
           /\ json' = r.json
           /\ stderr' = stderr \o r.err
           /\ pc' = IF 0 # r.ret THEN "returned" ELSE "curl_easy_init"
           /\ status' = IF 0 # r.ret THEN r.ret ELSE status
    /\ UNCHANGED <<argv, arguments, PROJECTS, env_projects, saveptr, project,
                   credentials_file, fileio, input_file, curl, requests>>

\* Variant: a failed curl_easy_init returns EINVAL.
CurlEasyInit_einval ==
    /\ pc = "curl_easy_init"
    /\ \E ok \in BOOLEAN :
         /\ curl' = IF ok THEN "live" ELSE "NULL"
         /\ pc' = IF ok THEN "for_init" ELSE "returned"
         /\ status' = IF ok THEN status ELSE EINVAL
    /\ UNCHANGED <<argv, arguments, PROJECTS, env_projects, saveptr, project,
                   credentials_file, credentials, result, fileio, input_file,
                   json, requests, stderr>>

\* Lines 211-218: curl_easy_init, and the authentication options.
CurlEasyInit ==
    /\ pc = "curl_easy_init"
    /\ \E ok \in BOOLEAN :
         /\ curl' = IF ok THEN "live" ELSE "NULL"
         /\ pc' = IF ok THEN "for_init" ELSE "returned"
         /\ status' = IF ok THEN status ELSE ENOMEM
    /\ UNCHANGED <<argv, arguments, PROJECTS, env_projects, saveptr, project,
                   credentials_file, credentials, result, fileio, input_file,
                   json, requests, stderr>>

\* Line 222: the first strtok_r, on env_projects itself.
ForInit ==
    /\ pc = "for_init"
    /\ LET r == strtok_r(env_projects.s, 1)
       IN  /\ env_projects' = Str(r.buf)
           /\ saveptr' = r.saveptr
           /\ project' = r.tok
           /\ pc' = IF r.tok = 0 THEN "cleanup" ELSE "for_body"
    /\ UNCHANGED <<argv, arguments, PROJECTS, credentials_file, credentials,
                   result, fileio, input_file, json, curl, requests, stderr,
                   status>>

\* Lines 224-232 and 223: one iteration (URL, dispatch, free, break), then
\* the next strtok_r.
ForBody ==
    /\ pc = "for_body"
    /\ \E mallocOk \in BOOLEAN, perform \in CurlOutcomes :
         LET name == CString(env_projects.s, project)
             project_url == get_project_url_owned(arguments.jenkins_host,
                                                  name, mallocOk)
             o == IF project_url.null THEN NoUrlOutcome ELSE perform
             b == build_project(project_url, name, o)
             r == strtok_r(env_projects.s, saveptr)
         IN  /\ result' = b.ret
             /\ requests' = Append(requests,
                    [project |-> name, url |-> project_url, method |-> "POST",
                     body |-> "", user |-> credentials.user,
                     password |-> credentials.token,
                     code |-> o.code, response |-> o.response, ret |-> b.ret])
             /\ stderr' = stderr \o b.err
             /\ IF Break(b.ret)
                THEN /\ pc' = "cleanup"
                     /\ UNCHANGED <<env_projects, saveptr, project>>
                ELSE /\ env_projects' = Str(r.buf)
                     /\ saveptr' = r.saveptr
                     /\ project' = r.tok
                     /\ pc' = IF r.tok = 0 THEN "cleanup" ELSE "for_body"
    /\ UNCHANGED <<argv, arguments, PROJECTS, credentials_file, credentials,
                   fileio, input_file, json, curl, status>>

\* Lines 234-236: release the client and the credentials, return result.
Cleanup ==
    /\ pc = "cleanup"
    /\ curl' = "cleaned"
    /\ credentials' = NoCredentials
    /\ status' = main_return(result)
    /\ pc' = "returned"
    /\ UNCHANGED <<argv, arguments, PROJECTS, env_projects, saveptr, project,
                   credentials_file, result, fileio, input_file, json,
                   requests, stderr>>

Next ==
    \/ ArgpParse
    \/ GetEnv
    \/ GetFileContents
    \/ GetUserCredentials
    \/ CurlEasyInit
    \/ ForInit
    \/ ForBody
    \/ Cleanup

Spec == Init /\ [][Next]_vars

\* ------------------------------------------------- reference definitions
\* The position of the first ":" of s, 0 when there is none.
RECURSIVE FirstColon(_, _)
FirstColon(s, i) ==
    IF i > Len(s) THEN 0 ELSE IF s[i] = ":" THEN i ELSE FirstColon(s, i + 1)

\* s cut at every ":": all the segments, the empty ones included.
RECURSIVE Segments(_)
Segments(s) ==
    LET i == FirstColon(s, 1)
    IN  IF i = 0 THEN <<s>>
        ELSE <<SubSeq(s, 1, i - 1)>> \o Segments(SubSeq(s, i + 1, Len(s)))

NonEmpty(x) == x # <<>>

\* The non-empty segments of s, in order, repetitions kept.
ProjectNames(s) == SelectSeq(Segments(s), NonEmpty)

IsPrefix(a, b) == Len(a) <= Len(b) /\ SubSeq(b, 1, Len(a)) = a

\* The project names dispatched so far, in order, and their results.
Attempted == [i \in 1..Len(requests) |-> requests[i].project]
Results == [i \in 1..Len(requests) |-> requests[i].ret]

RECURSIVE FirstNonZero(_)
FirstNonZero(rs) ==
    IF rs = <<>> THEN 0
    ELSE IF Head(rs) # 0 THEN Head(rs) ELSE FirstNonZero(Tail(rs))

AllDispatchesReturnedZero == \A i \in 1..Len(requests) : requests[i].ret = 0
AllTransportsCompleted == \A i \in 1..Len(requests) : requests[i].code = "CURLE_OK"

\* main went through the loop and returned.
LoopDone == pc = "returned" /\ curl = "cleaned"

\* get_user_credentials has returned and nothing has overwritten result.
LoaderReturned ==
    /\ ~credentials_file.null
    /\ curl = "none"
    /\ pc \in {"curl_easy_init", "returned"}

\* The command line lacks -c or -h, or holds a positional argument.
MissingFlagOrPositional(av) ==
    \/ ~\E i \in 1..Len(av) : av[i].key = "c"
    \/ ~\E i \in 1..Len(av) : av[i].key = "h"
    \/ \E i \in 1..Len(av) : av[i].key = "ARGP_KEY_ARG"

\* Why main returned without reaching the loop ("none": it reached it, or
\* has not returned).
FailureClass ==
    IF pc # "returned" THEN "none"
    ELSE IF PROJECTS.null THEN "projects_unset"
    ELSE IF credentials_file.null THEN "file_unreadable"
    ELSE IF ~credentials_file.s[1].valid THEN "json_invalid"
    ELSE IF credentials_file.s[1].user.type # "string" THEN "user_missing"
    ELSE IF credentials_file.s[1].token.type # "string" THEN "token_missing"
    ELSE IF curl = "NULL" THEN "no_http_client"
    ELSE "none"

\* ---------------------------------------------------------------- claims

\* C1: the projects are dispatched in the order of the non-empty segments of
\* PROJECTS, one request each; only the last request made can have a
\* non-zero result (nothing is dispatched after a non-zero result); and when
\* every result is 0 and main has returned, there is one request per name.
C1_DispatchInOrderUntilFailure ==
    ~PROJECTS.null =>
        /\ IsPrefix(Attempted, ProjectNames(PROJECTS.s))
        /\ \A i \in 1..(Len(requests) - 1) : requests[i].ret = 0
        /\ (LoopDone /\ AllDispatchesReturnedZero)
              => Len(requests) = Len(ProjectNames(PROJECTS.s))

\* C1 witness: PROJECTS = "a:b:a", a dispatched with result 0, b with a
\* non-zero result, and main returned without a third request.
C1_Witness ==
    /\ LoopDone
    /\ PROJECTS = Str(<<"a", ":", "b", ":", "a">>)
    /\ Attempted = <<(<<"a">>), (<<"b">>)>>
    /\ requests[1].ret = 0
    /\ requests[2].ret # 0

\* C2: when main returns after the loop, the exit status is the result of
\* the first dispatch whose result is not 0, and 0 when there is none.
C2_StatusIsFirstNonZeroResult ==
    LoopDone => status = FirstNonZero(Results)

\* C2 witness: the second of two dispatches returned 404 and so did main.
C2_Witness ==
    /\ LoopDone
    /\ Len(requests) = 2
    /\ requests[1].ret = 0
    /\ requests[2].ret = 404
    /\ status = 404

\* C3: every dispatch of a request that ends in a transport failure has a
\* non-zero result; so when the first project's transport fails, one request
\* is made and the run ends with a non-zero status.
C3_TransportFailureIsNonZero ==
    /\ \A i \in 1..Len(requests) :
          (~requests[i].url.null /\ requests[i].code # "CURLE_OK")
              => requests[i].ret # 0
    /\ (/\ LoopDone
        /\ requests # <<>>
        /\ ~requests[1].url.null
        /\ requests[1].code # "CURLE_OK")
          => (Len(requests) = 1 /\ status # 0)

\* C4: a dispatch whose transport completed has result 0 whatever the HTTP
\* status; it does not end the loop (when it is the last request made and
\* the loop is over, every project name was dispatched); and when every
\* transport completed, main returns 0.
C4_CompletedTransportIsSuccess ==
    /\ \A i \in 1..Len(requests) :
          requests[i].code = "CURLE_OK" => requests[i].ret = 0
    /\ (/\ pc \in {"cleanup", "returned"}
        /\ requests # <<>>
        /\ requests[Len(requests)].code = "CURLE_OK")
          => Len(requests) = Len(ProjectNames(PROJECTS.s))
    /\ (LoopDone /\ AllTransportsCompleted) => status = 0

\* C4 witness: the first project was answered 401, the second was still
\* dispatched, and main returned 0.
C4_Witness ==
    /\ LoopDone
    /\ Len(requests) = 2
    /\ requests[1].code = "CURLE_OK"
    /\ requests[1].response = 401
    /\ AllTransportsCompleted
    /\ status = 0

\* C5: the credential loader returns 1 exactly on text that is not JSON, 2
\* exactly on JSON whose 'user' is missing or not a string, 3 exactly on
\* JSON with a string 'user' whose 'token' is missing or not a string, and
\* 0 exactly when both are strings.
C5_LoaderCodesDistinct ==
    LoaderReturned =>
        LET d == credentials_file.s[1]
        IN  /\ result \in {0, 1, 2, 3}
            /\ (result = 1) <=> ~d.valid
            /\ (result = 2) <=> (d.valid /\ d.user.type # "string")
            /\ (result = 3) <=> (/\ d.valid
                                 /\ d.user.type = "string"
                                 /\ d.token.type # "string")
            /\ (result = 0) <=> (/\ d.valid
                                 /\ d.user.type = "string"
                                 /\ d.token.type = "string")

\* C5 witness: valid JSON with a string 'user' and a non-string 'token'
\* made the loader return 3.
C5_Witness ==
    /\ LoaderReturned
    /\ credentials_file.s[1].user.type = "string"
    /\ credentials_file.s[1].token.type = "int"
    /\ result = 3

C7_EmptyProjectsNoRequests ==
    PROJECTS = Str(<<>>) =>
        /\ pc # "for_body"
        /\ requests = <<>>
        /\ LoopDone => status = 0

\* C7 witness: PROJECTS is the empty string and main returned from the loop.
C7_Witness ==
    /\ PROJECTS = Str(<<>>)
    /\ LoopDone
    /\ requests = <<>>
    /\ status = 0

C9_ResourcesReleased ==
    /\ input_file # "open"
    /\ json # "live"
    /\ (pc = "returned" /\ curl \notin {"none", "NULL"}) => curl = "cleaned"

\* C9 witness: get_file_contents failed after fopen succeeded, main
\* returned, and the handle is closed.
C9_Witness ==
    /\ pc = "returned"
    /\ fileio = <<"stat", "fopen">>
    /\ credentials_file.null
    /\ input_file = "closed"

\* C10 as stated: when every dispatch returned 0, the projects dispatched
\* are all the segments of PROJECTS, the empty ones included.
C10_EmptySegmentsDispatched ==
    (LoopDone /\ AllDispatchesReturnedZero /\ PROJECTS.s # <<>>)
        => Attempted = Segments(PROJECTS.s)

\* C10 as amended: when every dispatch returned 0, the projects dispatched
\* are the non-empty segments of PROJECTS, in order and with repetitions;
\* no request is ever made for an empty project name.
C10_NonEmptySegmentsInOrder ==
    /\ (LoopDone /\ AllDispatchesReturnedZero)
          => Attempted = ProjectNames(PROJECTS.s)
    /\ \A i \in 1..Len(requests) : requests[i].project # <<>>

\* C10 witness: PROJECTS = ":a::a" made two requests, both for a.
C10_Witness ==
    /\ LoopDone
    /\ PROJECTS = Str(<<":", "a", ":", ":", "a">>)
    /\ AllDispatchesReturnedZero
    /\ Attempted = <<(<<"a">>), (<<"a">>)>>

====
